---- MODULE Spec2Model ----
(***************************************************************************)
(* Model of the weighted edit-distance aligner of min_distance.py          *)
(* (class MinDistance): cost_matrix, backtrace, zero_length, total_score,  *)
(* region_score and align.                                                 *)
(*                                                                         *)
(* Tokens are sequences of characters.  Costs are Python numbers; the      *)
(* perturbation 1e-7 makes them IEEE-754 doubles, so a cost is modelled    *)
(* bit-exactly as a non-negative multiple of 2^-76 (the unit in the last   *)
(* place of the double 1e-7), held in three limbs <<a, b, c>> of 30 bits   *)
(* (value = (a*2^60 + b*2^30 + c) * 2^-76), and every float operation      *)
(* rounds its exact result to 53 significant bits, ties to even.           *)
(***************************************************************************)
EXTENDS Integers, Sequences, FiniteSets, TLC

\* ------------------------------------------------------------------ bounds
\* longest reference and hypothesis (in words) of the runs with the default
\* weights, and of the runs with every weight in 1..MaxWeight
MaxRefLen == 3
MaxHypLen == 3
MaxRefLenW == 2
MaxHypLenW == 2
MaxWeight == 2

\* -------------------------------------------------------------- characters
LowerChars == {"a", "b"}
UpperChars == {"A", "B"}

\* str.lower() on one character
LowerChar(ch) ==
    IF ch = "A" THEN "a" ELSE IF ch = "B" THEN "b" ELSE ch

\* str.upper() on one character
UpperChar(ch) ==
    IF ch = "a" THEN "A" ELSE IF ch = "b" THEN "B"
    ELSE IF ch = "s" THEN "S" ELSE IF ch = "d" THEN "D"
    ELSE IF ch = "i" THEN "I" ELSE ch

\* str.isupper(): at least one cased character and no lowercase one
IsUpper(w) ==
    /\ \E k \in DOMAIN w : w[k] \in UpperChars
    /\ \A k \in DOMAIN w : w[k] \notin LowerChars

\* mutant: the word left as it is
Lower_Identity(w) == w

\* str.lower()
Lower(w) == [k \in DOMAIN w |-> LowerChar(w[k])]

\* str.upper()
Upper(w) == [k \in DOMAIN w |-> UpperChar(w[k])]

\* ch * n  (a string of n copies of ch; empty when n <= 0)
Repeat(ch, n) == [k \in 1..n |-> ch]

\* Python indexing s[k], 0-based, a negative k counting from the end
PyAt(s, k) == IF k >= 0 THEN s[k + 1] ELSE s[Len(s) + k + 1]

Max(x, y) == IF x >= y THEN x ELSE y

\* ---------------------------------------------------------------- doubles
Base == 2^30

\* mutant: a perturbation larger than the weight differences (2 instead of 1e-7)
Eps_TooLarge == <<131072, 0, 0>>

\* the double 1e-7 = 7555786372591432 * 2^-76
Eps == <<0, 7036874, 448573256>>

FZero == <<0, 0, 0>>

\* an int as a double: n * 2^76 = (n * 2^16) * 2^60
FromInt(n) == <<n * 65536, 0, 0>>

\* number of bits of n, 0 <= n < 2^30
BitLen(n) == CHOOSE k \in 0..30 : (k = 0 \/ 2^(k-1) <= n) /\ (k = 30 \/ n < 2^k)

\* round to nearest, ties to even, at 53 significant bits
Round53(x) ==
    LET a == x[1]
        b == x[2]
        c == x[3]
        r == IF a > 0 THEN 7 + BitLen(a)
             ELSE IF b > 0 THEN BitLen(b) - 23 ELSE 0
    IN  IF r <= 0 THEN x
        ELSE LET p    == 2^r
                 q    == c \div p
                 rem  == c % p
                 half == 2^(r-1)
                 odd  == IF r < 30 THEN q % 2 ELSE b % 2
                 up   == IF rem > half \/ (rem = half /\ odd = 1) THEN 1 ELSE 0
                 c2   == IF r < 30 THEN (q + up) * p ELSE up * Base
                 b2   == b + (c2 \div Base)
             IN  <<a + (b2 \div Base), b2 % Base, c2 % Base>>

AddExact(x, y) ==
    LET c == x[3] + y[3]
        b == x[2] + y[2] + (c \div Base)
    IN  <<x[1] + y[1] + (b \div Base), b % Base, c % Base>>

SubExact(x, y) ==
    LET c  == x[3] - y[3]
        bc == IF c < 0 THEN 1 ELSE 0
        b  == x[2] - y[2] - bc
        bb == IF b < 0 THEN 1 ELSE 0
    IN  <<x[1] - y[1] - bb, b + bb * Base, c + bc * Base>>

RECURSIVE MulExact(_, _)
MulExact(x, n) == IF n = 0 THEN FZero ELSE AddExact(MulExact(x, n - 1), x)

\* x + y, x - y (x >= y), x * n (n an int)
FAdd(x, y) == Round53(AddExact(x, y))
FSub(x, y) == Round53(SubExact(x, y))
FMul(x, n) == Round53(MulExact(x, n))

FLess(x, y) ==
    \/ x[1] < y[1]
    \/ x[1] = y[1] /\ x[2] < y[2]
    \/ x[1] = y[1] /\ x[2] = y[2] /\ x[3] < y[3]

\* min(x, y): the first of two equal arguments
FMin(x, y) == IF FLess(y, x) THEN y ELSE x

RECURSIVE FMinList(_)
FMinList(s) == IF Len(s) = 1 THEN s[1] ELSE FMin(s[1], FMinList(Tail(s)))

\* the int nearest to a cost (the cost with the perturbations removed)
IntPart(x) == (x[1] + 32768) \div 65536

\* ------------------------------------------------------------ the object
\* A MinDistance object after __init__: the two token lists, the three
\* weights and the mode flag.
MinDistance(r, h, iw, dw, sw, mw) ==
    [ref |-> r, hyp |-> h, ins_weight |-> iw, del_weight |-> dw,
     sub_weight |-> sw, modified_weights |-> mw]

DefaultIns == 3
DefaultDel == 3
DefaultSub == 4

\* ------------------------------------------------------------ cost_matrix
\* mutant: the perturbation is never applied
SmallValue_Off(self, w) == FZero

\* small_value = 1e-7 if (w.isupper() and self.modified_weights) else 0
SmallValue(self, w) == IF IsUpper(w) /\ self.modified_weights THEN Eps ELSE FZero

\* self.del_weight - small_value, self.ins_weight + small_value,
\* self.sub_weight + small_value
DelCost(self, sv) == FSub(FromInt(self.del_weight), sv)
InsCost(self, sv) == FAdd(FromInt(self.ins_weight), sv)
SubCost(self, sv) == FAdd(FromInt(self.sub_weight), sv)

\* mutant: the comparison of the two words inverted
SubOrMatchCost_Inverted(self, w_ref, w_hyp, sv) ==
    FAdd(FromInt(IF w_ref = w_hyp THEN self.sub_weight ELSE 0), sv)

\* self.sub_weight*(w_ref!=w_hyp) + small_value
SubOrMatchCost(self, w_ref, w_hyp, sv) ==
    FAdd(FromInt(IF w_ref # w_hyp THEN self.sub_weight ELSE 0), sv)

\* current_row = [(self.del_weight-small_value)*(i_ref+1)]
FirstColumn(self, sv, i_ref) == FMul(DelCost(self, sv), i_ref + 1)

\* the inner loop over hyp: appends one cell to current_row per hyp word
RECURSIVE FillRow(_, _, _, _, _, _)
FillRow(self, current_row, previous_row, w_ref, sv, i_hyp) ==
    IF i_hyp >= Len(self.hyp) THEN current_row
    ELSE LET w_hyp         == self.hyp[i_hyp + 1]
             deletions     == FAdd(previous_row[i_hyp + 2], DelCost(self, sv))
             insertions    == FAdd(current_row[i_hyp + 1], InsCost(self, sv))
             substitutions == FAdd(previous_row[i_hyp + 1],
                                   SubOrMatchCost(self, w_ref, w_hyp, sv))
             cell          == FMinList(<<insertions, deletions, substitutions>>)
         IN  FillRow(self, Append(current_row, cell), previous_row, w_ref, sv,
                     i_hyp + 1)

\* the outer loop over ref: appends one row per ref word
RECURSIVE FillRows(_, _, _)
FillRows(self, rws, i_ref) ==
    IF i_ref >= Len(self.ref) THEN rws
    ELSE LET sv          == SmallValue(self, self.ref[i_ref + 1])
             w_ref       == Lower(self.ref[i_ref + 1])
             current_row == FillRow(self, <<FirstColumn(self, sv, i_ref)>>,
                                    rws[Len(rws)], w_ref, sv, 0)
         IN  FillRows(self, Append(rws, current_row), i_ref + 1)

\* previous_row = range(0, len(self.hyp)*self.ins_weight + 1, self.ins_weight)
FirstRow(self) ==
    [jj \in 1..(Len(self.hyp) + 1) |-> FromInt((jj - 1) * self.ins_weight)]

cost_matrix(self) == FillRows(self, <<FirstRow(self)>>, 0)

\* -------------------------------------------------------------- backtrace
\* rows[i][j], Python indexing
Cell(rws, i, j) == PyAt(PyAt(rws, i), j)

\* the list of the valid neighbours of (i, j): diagonal, up, left
Neighbors(rws, i, j) ==
    (IF i # 0 /\ j # 0 THEN <<Cell(rws, i - 1, j - 1)>> ELSE <<>>)
    \o (IF i # 0 THEN <<Cell(rws, i - 1, j)>> ELSE <<>>)
    \o (IF j # 0 THEN <<Cell(rws, i, j - 1)>> ELSE <<>>)

\* small_value of one loop iteration: taken from self.ref[i-1]
StepSmallValue(self, i) == SmallValue(self, PyAt(self.ref, i - 1))

\* the conditions of the if / elif chain, each as written
Rule1(self, rws, i, j) ==
    Cell(rws, i, j) = FAdd(FMinList(Neighbors(rws, i, j)), StepSmallValue(self, i))

\* mutant: the substitution rule without the substitution weight
Rule2_NoWeight(self, rws, i, j) ==
    /\ i # 0
    /\ j # 0
    /\ Cell(rws, i, j) = FAdd(Cell(rws, i - 1, j - 1), StepSmallValue(self, i))

Rule2(self, rws, i, j) ==
    /\ i # 0
    /\ j # 0
    /\ Cell(rws, i, j) = FAdd(Cell(rws, i - 1, j - 1),
                              SubCost(self, StepSmallValue(self, i)))

\* mutant: the deletion rule without its column-0 alternative
Rule3_NoColumnZero(self, rws, i, j) ==
    /\ i # 0
    /\ Cell(rws, i, j) = FAdd(Cell(rws, i - 1, j),
                              DelCost(self, StepSmallValue(self, i)))

Rule3(self, rws, i, j) ==
    \/ /\ i # 0
       /\ Cell(rws, i, j) = FAdd(Cell(rws, i - 1, j),
                                 DelCost(self, StepSmallValue(self, i)))
    \/ j = 0

\* mutant: the insertion rule without its row-0 alternative
Rule4_NoRowZero(self, rws, i, j) ==
    /\ j # 0
    /\ Cell(rws, i, j) = FAdd(Cell(rws, i, j - 1),
                              InsCost(self, StepSmallValue(self, i)))

Rule4(self, rws, i, j) ==
    \/ /\ j # 0
       /\ Cell(rws, i, j) = FAdd(Cell(rws, i, j - 1),
                                 InsCost(self, StepSmallValue(self, i)))
    \/ i = 0

\* mutant: the chain without its last branch
Rule5_Never(self, rws, i, j) == FALSE

Rule5(self, rws, i, j) ==
    Cell(rws, i, j) = FAdd(Cell(rws, i - 1, j - 1), StepSmallValue(self, i))

\* the branch one loop iteration takes at (i, j): 1..5, or 0 when no
\* condition holds (the iteration then changes nothing)
Branch(self, rws, i, j) ==
    IF Rule1(self, rws, i, j) THEN 1
    ELSE IF Rule2(self, rws, i, j) THEN 2
    ELSE IF Rule3(self, rws, i, j) THEN 3
    ELSE IF Rule4(self, rws, i, j) THEN 4
    ELSE IF Rule5(self, rws, i, j) THEN 5
    ELSE 0

\* the dicts appended to edits; i and j are the decremented indices
MatchEdit(self, i, j) ==
    [type |-> "match",
     eval |-> Repeat(" ", Len(PyAt(self.ref, i)) + 1),
     ref  |-> PyAt(self.ref, i),
     hyp  |-> PyAt(self.hyp, j)]

SubstitutionEdit(self, i, j) ==
    LET len_r == Len(PyAt(self.ref, i))
        len_h == Len(PyAt(self.hyp, j))
    IN  [type |-> "substitution",
         eval |-> <<"s">> \o Repeat(" ", Max(len_r, len_h)),
         ref  |-> PyAt(self.ref, i) \o Repeat(" ", len_h - len_r),
         hyp  |-> PyAt(self.hyp, j) \o Repeat(" ", len_r - len_h)]

DeletionEdit(self, i) ==
    LET len_r == Len(PyAt(self.ref, i))
    IN  [type |-> "deletion",
         eval |-> <<"d">> \o Repeat(" ", len_r),
         ref  |-> PyAt(self.ref, i),
         hyp  |-> Repeat("*", len_r)]

\* mutant: the insertion branch labels its edit as the deletion branch does
InsertionEdit_AsDeletion(self, j) ==
    LET len_h == Len(PyAt(self.hyp, j))
    IN  [type |-> "deletion",
         eval |-> <<"d">> \o Repeat(" ", len_h),
         ref  |-> Repeat("*", len_h),
         hyp  |-> PyAt(self.hyp, j)]

InsertionEdit(self, j) ==
    LET len_h == Len(PyAt(self.hyp, j))
    IN  [type |-> "insertion",
         eval |-> <<"i">> \o Repeat(" ", len_h),
         ref  |-> Repeat("*", len_h),
         hyp  |-> PyAt(self.hyp, j)]

\* one iteration of the while loop taking branch b: the new i, j and edit
Step(self, b, i, j) ==
    IF b = 1 \/ b = 5 THEN [i |-> i - 1, j |-> j - 1, edit |-> MatchEdit(self, i - 1, j - 1)]
    ELSE IF b = 2 THEN [i |-> i - 1, j |-> j - 1, edit |-> SubstitutionEdit(self, i - 1, j - 1)]
    ELSE IF b = 3 THEN [i |-> i - 1, j |-> j, edit |-> DeletionEdit(self, i - 1)]
    ELSE [i |-> i, j |-> j - 1, edit |-> InsertionEdit(self, j - 1)]

\* mutant: the list left in the order the loop built it
Reverse_Identity(s) == s

\* list.reverse()
Reverse(s) == [k \in 1..Len(s) |-> s[Len(s) + 1 - k]]

\* an iteration in which no branch is taken repeats for ever
Diverges == <<[type |-> "diverges", eval |-> <<>>, ref |-> <<>>, hyp |-> <<>>]>>

RECURSIVE BacktraceLoop(_, _, _, _, _)
BacktraceLoop(self, rws, i, j, eds) ==
    IF i = 0 /\ j = 0 THEN Reverse(eds)
    ELSE LET b == Branch(self, rws, i, j)
         IN  IF b = 0 THEN Diverges
             ELSE LET s == Step(self, b, i, j)
                  IN  BacktraceLoop(self, rws, s.i, s.j, Append(eds, s.edit))

backtrace(self) ==
    BacktraceLoop(self, cost_matrix(self), Len(self.ref), Len(self.hyp), <<>>)

\* ------------------------------------------------------------ zero_length
zero_length(self) ==
    [k \in 1..Len(self.ref) |->
        [type |-> "deletion",
         eval |-> <<"d">> \o Repeat(" ", Len(self.ref[k])),
         ref  |-> self.ref[k],
         hyp  |-> Repeat("*", Len(self.ref[k]))]]

\* ---------------------------------------------------------------- scoring
\* list.count(x)
Count(s, x) == Cardinality({k \in DOMAIN s : s[k] = x})

total_score(eds) ==
    LET operations == [k \in DOMAIN eds |-> eds[k].type]
    IN  <<Count(operations, "match"),
          Count(operations, "substitution"),
          Count(operations, "deletion"),
          Count(operations, "insertion")>>

\* mutant: the region of an operation read from its hypothesis side
region_score_ByHyp(eds) ==
    LET operations == [k \in DOMAIN eds |-> <<eds[k].type, IsUpper(eds[k].hyp)>>]
    IN  <<Count(operations, <<"match", FALSE>>),
          Count(operations, <<"substitution", FALSE>>),
          Count(operations, <<"deletion", FALSE>>),
          Count(operations, <<"insertion", FALSE>>),
          Count(operations, <<"match", TRUE>>),
          Count(operations, <<"substitution", TRUE>>),
          Count(operations, <<"deletion", TRUE>>),
          Count(operations, <<"insertion", TRUE>>)>>

region_score(eds) ==
    LET operations == [k \in DOMAIN eds |-> <<eds[k].type, IsUpper(eds[k].ref)>>]
    IN  <<Count(operations, <<"match", FALSE>>),
          Count(operations, <<"substitution", FALSE>>),
          Count(operations, <<"deletion", FALSE>>),
          Count(operations, <<"insertion", FALSE>>),
          Count(operations, <<"match", TRUE>>),
          Count(operations, <<"substitution", TRUE>>),
          Count(operations, <<"deletion", TRUE>>),
          Count(operations, <<"insertion", TRUE>>)>>

\* ' '.join(list) and ''.join(list)
RECURSIVE Join(_, _)
Join(sep, s) ==
    IF Len(s) = 0 THEN <<>>
    ELSE IF Len(s) = 1 THEN s[1]
    ELSE s[1] \o sep \o Join(sep, Tail(s))

\* s[:4] and s[4:]
Take4(s) == SubSeq(s, 1, IF Len(s) < 4 THEN Len(s) ELSE 4)
Drop4(s) == SubSeq(s, 5, Len(s))

\* mutant: both token counts appended after all the operation counts
AlignResult_CountsLast(self, eds) ==
    LET scores         == IF self.modified_weights THEN region_score(eds)
                          ELSE total_score(eds)
        disfluent_wrds == Cardinality({k \in DOMAIN self.ref : IsUpper(self.ref[k])})
        fluent_wrds    == IF self.modified_weights
                          THEN Len(self.ref) - disfluent_wrds
                          ELSE Len(self.ref)
        report         == [REF    |-> Join(<<" ">>, [k \in DOMAIN eds |-> eds[k].ref]),
                           HYP    |-> Join(<<" ">>, [k \in DOMAIN eds |-> eds[k].hyp]),
                           Eval   |-> Join(<<>>, [k \in DOMAIN eds |-> Upper(eds[k].eval)]),
                           counts |-> scores]
    IN  <<report, scores \o <<fluent_wrds, disfluent_wrds>>>>

\* what align returns once the edits are known: the report (its three
\* aligned lines and the counts it prints) and the score list
AlignResult(self, eds) ==
    LET scores         == IF self.modified_weights THEN region_score(eds)
                          ELSE total_score(eds)
        disfluent_wrds == Cardinality({k \in DOMAIN self.ref : IsUpper(self.ref[k])})
        fluent_wrds    == IF self.modified_weights
                          THEN Len(self.ref) - disfluent_wrds
                          ELSE Len(self.ref)
        report         == [REF    |-> Join(<<" ">>, [k \in DOMAIN eds |-> eds[k].ref]),
                           HYP    |-> Join(<<" ">>, [k \in DOMAIN eds |-> eds[k].hyp]),
                           Eval   |-> Join(<<>>, [k \in DOMAIN eds |-> Upper(eds[k].eval)]),
                           counts |-> scores]
    IN  <<report,
          Take4(scores) \o <<fluent_wrds>> \o Drop4(scores) \o <<disfluent_wrds>>>>

\* ---------------------------------------------------------- state machine
VARIABLES ref, hyp, ins_weight, del_weight, sub_weight, modified_weights,
          pc, rows, i, j, edits, result

vars == <<ref, hyp, ins_weight, del_weight, sub_weight, modified_weights,
          pc, rows, i, j, edits, result>>

Self == MinDistance(ref, hyp, ins_weight, del_weight, sub_weight, modified_weights)

\* the words a reference and a hypothesis are drawn from
RefTokens == {<<"a">>, <<"a", "b">>, <<"A">>}
HypTokens == {<<"a">>, <<"a", "b">>, <<"A">>}
RefTokensW == {<<"a">>, <<"A">>}
HypTokensW == {<<"a">>, <<"a", "b">>}

SeqsUpTo(S, n) == UNION {[1..m -> S] : m \in 0..n}

Constructed(refs, hyps, weights) ==
    /\ ref \in refs
    /\ hyp \in hyps
    /\ ins_weight \in weights
    /\ del_weight \in weights
    /\ sub_weight \in weights
    /\ modified_weights \in BOOLEAN
    /\ pc = "constructed"
    /\ rows = <<>>
    /\ i = 0
    /\ j = 0
    /\ edits = <<>>
    /\ result = <<>>

\* objects built with the default weights
Init ==
    /\ Constructed(SeqsUpTo(RefTokens, MaxRefLen), SeqsUpTo(HypTokens, MaxHypLen),
                   {DefaultIns, DefaultDel, DefaultSub})
    /\ ins_weight = DefaultIns
    /\ del_weight = DefaultDel
    /\ sub_weight = DefaultSub

\* objects built with any weights in 1..MaxWeight
InitW ==
    Constructed(SeqsUpTo(RefTokensW, MaxRefLenW), SeqsUpTo(HypTokensW, MaxHypLenW),
                1..MaxWeight)

config == <<ref, hyp, ins_weight, del_weight, sub_weight, modified_weights>>

\* mutant: the emptiness test made on the hypothesis
AlignRaise_ChecksHyp ==
    /\ pc = "constructed"
    /\ Len(hyp) = 0
    /\ pc' = "raised"
    /\ UNCHANGED <<config, rows, i, j, edits, result>>

\* align(): if not len(self.ref): raise ValueError
AlignRaise ==
    /\ pc = "constructed"
    /\ Len(ref) = 0
    /\ pc' = "raised"
    /\ UNCHANGED <<config, rows, i, j, edits, result>>

\* align() with an empty hypothesis: zero_length, scores, return
AlignZeroLength ==
    /\ pc = "constructed"
    /\ Len(ref) # 0
    /\ Len(hyp) = 0
    /\ edits' = zero_length(Self)
    /\ result' = AlignResult(Self, edits')
    /\ pc' = "done"
    /\ UNCHANGED <<config, rows, i, j>>

\* align() entering backtrace(): the matrix is built, the loop starts at
\* the bottom-right cell
AlignBacktrace ==
    /\ pc = "constructed"
    /\ Len(ref) # 0
    /\ Len(hyp) # 0
    /\ rows' = cost_matrix(Self)
    /\ i' = Len(ref)
    /\ j' = Len(hyp)
    /\ edits' = <<>>
    /\ pc' = "backtrace"
    /\ UNCHANGED <<config, result>>

\* one iteration of the while loop, one action per branch of the chain
\* rule 1: the cell is the cheapest neighbour plus small_value
StepMatch ==
    /\ pc = "backtrace"
    /\ ~(i = 0 /\ j = 0)
    /\ Branch(Self, rows, i, j) = 1
    /\ i' = Step(Self, 1, i, j).i
    /\ j' = Step(Self, 1, i, j).j
    /\ edits' = Append(edits, Step(Self, 1, i, j).edit)
    /\ UNCHANGED <<config, pc, rows, result>>

\* rule 2
StepSubstitution ==
    /\ pc = "backtrace"
    /\ ~(i = 0 /\ j = 0)
    /\ Branch(Self, rows, i, j) = 2
    /\ i' = Step(Self, 2, i, j).i
    /\ j' = Step(Self, 2, i, j).j
    /\ edits' = Append(edits, Step(Self, 2, i, j).edit)
    /\ UNCHANGED <<config, pc, rows, result>>

\* rule 3
StepDeletion ==
    /\ pc = "backtrace"
    /\ ~(i = 0 /\ j = 0)
    /\ Branch(Self, rows, i, j) = 3
    /\ i' = Step(Self, 3, i, j).i
    /\ j' = Step(Self, 3, i, j).j
    /\ edits' = Append(edits, Step(Self, 3, i, j).edit)
    /\ UNCHANGED <<config, pc, rows, result>>

\* rule 4
StepInsertion ==
    /\ pc = "backtrace"
    /\ ~(i = 0 /\ j = 0)
    /\ Branch(Self, rows, i, j) = 4
    /\ i' = Step(Self, 4, i, j).i
    /\ j' = Step(Self, 4, i, j).j
    /\ edits' = Append(edits, Step(Self, 4, i, j).edit)
    /\ UNCHANGED <<config, pc, rows, result>>

\* rule 5: the fallback match
StepFallbackMatch ==
    /\ pc = "backtrace"
    /\ ~(i = 0 /\ j = 0)
    /\ Branch(Self, rows, i, j) = 5
    /\ i' = Step(Self, 5, i, j).i
    /\ j' = Step(Self, 5, i, j).j
    /\ edits' = Append(edits, Step(Self, 5, i, j).edit)
    /\ UNCHANGED <<config, pc, rows, result>>

\* the loop ends at (0, 0): edits.reverse(), then align scores and returns
AlignReturn ==
    /\ pc = "backtrace"
    /\ i = 0
    /\ j = 0
    /\ edits' = Reverse(edits)
    /\ result' = AlignResult(Self, edits')
    /\ pc' = "done"
    /\ UNCHANGED <<config, rows, i, j>>

Next ==
    \/ AlignRaise
    \/ AlignZeroLength
    \/ AlignBacktrace
    \/ StepMatch
    \/ StepSubstitution
    \/ StepDeletion
    \/ StepInsertion
    \/ StepFallbackMatch
    \/ AlignReturn

Spec == Init /\ [][Next]_vars

SpecW == InitW /\ [][Next]_vars

\* ------------------------------------------------------- derived notions
Returned == pc = "done"
Scores == result[2]
Report == result[1]

TypeOK ==
    /\ pc \in {"constructed", "backtrace", "done", "raised"}
    /\ i \in 0..Len(ref)
    /\ j \in 0..Len(hyp)

\* number of operations of one type in the Edit Sequence
TypeCount(t) == Cardinality({k \in DOMAIN edits : edits[k].type = t})

\* number of operations of one type on a fluent / a disfluent reference word
RegionCount(t, u) ==
    Cardinality({k \in DOMAIN edits : edits[k].type = t /\ IsUpper(edits[k].ref) = u})

\* a count of the Score Tuple, summed over its two halves in modified mode
ScoreSum(k) == IF modified_weights THEN Scores[k] + Scores[k + 5] ELSE Scores[k]

DefaultWeights ==
    ins_weight = DefaultIns /\ del_weight = DefaultDel /\ sub_weight = DefaultSub

\* a string without its trailing padding
RECURSIVE RStrip(_)
RStrip(w) ==
    IF Len(w) > 0 /\ w[Len(w)] = " " THEN RStrip(SubSeq(w, 1, Len(w) - 1)) ELSE w

\* ----------------------------------------------------------------- claims

\* C1: for non-empty ref and hyp, in either weight mode with the default
\* weights, the Score Tuple of align has match+sub+del = |ref| and
\* match+sub+ins = |hyp| (summed over the fluent and disfluent halves in
\* modified mode), and the Edit Sequence has at least max(|ref|,|hyp|)
\* operations.
C1_Conservation ==
    (Returned /\ ref # <<>> /\ hyp # <<>> /\ DefaultWeights) =>
        /\ ScoreSum(1) + ScoreSum(2) + ScoreSum(3) = Len(ref)
        /\ ScoreSum(1) + ScoreSum(2) + ScoreSum(4) = Len(hyp)
        /\ Len(edits) >= Max(Len(ref), Len(hyp))

\* an alignment of a three-word reference that has returned with a
\* deletion, an insertion and a match or substitution in it
C1_Witness ==
    /\ Returned
    /\ modified_weights
    /\ Len(ref) = 3
    /\ Len(hyp) >= 2
    /\ ScoreSum(3) >= 1
    /\ ScoreSum(4) >= 1
    /\ ScoreSum(1) + ScoreSum(2) >= 1

\* C2 as stated: aligning a non-empty sentence against itself, whatever the
\* letter case of its tokens, yields only matches.
C2_IdentityAnyCase ==
    (Returned /\ ref # <<>> /\ hyp = ref) =>
        /\ \A k \in DOMAIN edits : edits[k].type = "match"
        /\ TypeCount("substitution") = 0
        /\ TypeCount("deletion") = 0
        /\ TypeCount("insertion") = 0

\* no uppercase letter in any word of the sentence
NoUppercase(sentence) == \A k \in DOMAIN sentence : Lower(sentence[k]) = sentence[k]

\* C2 amended: aligning a non-empty sentence without uppercase letters
\* against itself, in either weight mode, yields an Edit Sequence of
\* exactly |ref| matches and no substitution, deletion or insertion.
C2_IdentityLowercase ==
    (Returned /\ ref # <<>> /\ hyp = ref /\ NoUppercase(ref)) =>
        /\ Len(edits) = Len(ref)
        /\ \A k \in DOMAIN edits : edits[k].type = "match"
        /\ ScoreSum(1) = Len(ref)
        /\ ScoreSum(2) = 0
        /\ ScoreSum(3) = 0
        /\ ScoreSum(4) = 0

\* a lowercase sentence of three words aligned against itself has returned
C2_Witness ==
    /\ Returned
    /\ Len(ref) = 3
    /\ hyp = ref
    /\ NoUppercase(ref)
    /\ ref[1] # ref[2]

\* C3: align raises ValueError exactly when ref has no token, whatever hyp
\* and the weight mode are; it raises before any matrix or edit is computed
\* and returns neither a report nor a Score Tuple; with a non-empty ref it
\* never raises.
C3_EmptyRefRaises ==
    /\ pc = "raised" => ref = <<>> /\ rows = <<>> /\ edits = <<>> /\ result = <<>>
    /\ ref = <<>> => pc \in {"constructed", "raised"}
    /\ ref # <<>> => pc # "raised"

\* align has raised on an empty reference with a non-empty hypothesis
C3_Witness ==
    /\ pc = "raised"
    /\ ref = <<>>
    /\ Len(hyp) >= 2
    /\ modified_weights

\* the words of a sentence that are not disfluent-tagged, in order
RECURSIVE FluentWords(_)
FluentWords(sentence) ==
    IF sentence = <<>> THEN <<>>
    ELSE IF IsUpper(sentence[1]) THEN FluentWords(Tail(sentence))
    ELSE <<sentence[1]>> \o FluentWords(Tail(sentence))

DisfluentCount(sentence) == Cardinality({k \in DOMAIN sentence : IsUpper(sentence[k])})

\* ref is hyp with k >= 1 disfluent words inserted, hyp lowercase and non-empty
DisfluentInsertedCase ==
    /\ modified_weights
    /\ DefaultWeights
    /\ hyp # <<>>
    /\ NoUppercase(hyp)
    /\ FluentWords(ref) = hyp
    /\ DisfluentCount(ref) >= 1

\* C4: with modified weights and the default weights, when ref is a
\* lowercase non-empty hyp with k >= 1 disfluent words inserted, the Edit
\* Sequence has exactly k deletions, each of a disfluent word, and |hyp|
\* matches, each of a fluent word: Score Tuple [|hyp|,0,0,0,|hyp|,0,0,k,0,k].
C4_DisfluentDeleted ==
    (Returned /\ DisfluentInsertedCase) =>
        /\ Scores = <<Len(hyp), 0, 0, 0, Len(hyp), 0, 0, DisfluentCount(ref), 0,
                      DisfluentCount(ref)>>
        /\ \A k \in DOMAIN edits :
              \/ edits[k].type = "deletion" /\ IsUpper(edits[k].ref)
              \/ edits[k].type = "match" /\ ~IsUpper(edits[k].ref)
                    /\ edits[k].ref = edits[k].hyp

\* 'A A a' against 'a': two uppercase copies in front of the word they repeat
C4_Witness ==
    /\ Returned
    /\ DisfluentInsertedCase
    /\ ref = <<<<"A">>, <<"A">>, <<"a">>>>
    /\ hyp = <<<<"a">>>>

\* C5: with an empty hyp and a non-empty ref align produces |ref| deletions,
\* one per reference word in reference order (del = |ref|, match = sub =
\* ins = 0), and that Edit Sequence is the one cost_matrix followed by
\* backtrace produces on the same input, in either weight mode.
C5_ZeroLengthIsGeneralPath ==
    (Returned /\ hyp = <<>> /\ DefaultWeights) =>
        /\ Len(edits) = Len(ref)
        /\ \A k \in DOMAIN edits :
              edits[k].type = "deletion" /\ edits[k].ref = ref[k]
        /\ ScoreSum(3) = Len(ref)
        /\ ScoreSum(1) = 0 /\ ScoreSum(2) = 0 /\ ScoreSum(4) = 0
        /\ edits = backtrace(Self)

\* align has returned for an empty hyp and a mixed three-word reference
C5_Witness ==
    /\ Returned
    /\ hyp = <<>>
    /\ Len(ref) = 3
    /\ modified_weights
    /\ IsUpper(ref[1])
    /\ ~IsUpper(ref[2])
    /\ TypeCount("deletion") = 3

Min3(x, y, z) ==
    IF x <= y /\ x <= z THEN x ELSE IF y <= z THEN y ELSE z

\* the classic Levenshtein distance between two sequences
RECURSIVE Levenshtein(_, _)
Levenshtein(s, t) ==
    IF s = <<>> THEN Len(t)
    ELSE IF t = <<>> THEN Len(s)
    ELSE IF Head(s) = Head(t) THEN Levenshtein(Tail(s), Tail(t))
    ELSE 1 + Min3(Levenshtein(Tail(s), t),
                  Levenshtein(s, Tail(t)),
                  Levenshtein(Tail(s), Tail(t)))

\* a sentence with every letter of every word lowercased
LowerAll(sentence) ==
    [k \in DOMAIN sentence |->
        [m \in DOMAIN sentence[k] |-> LowerChar(sentence[k][m])]]

\* substitutions + deletions + insertions of the Edit Sequence
ErrorCount == TypeCount("substitution") + TypeCount("deletion") + TypeCount("insertion")

UnitWeightsCase ==
    /\ Returned
    /\ ref # <<>>
    /\ hyp # <<>>
    /\ ins_weight = 1
    /\ del_weight = 1
    /\ sub_weight = 1
    /\ ~modified_weights

\* C6 as stated: with unit weights and modified weights off, the number of
\* substitutions, deletions and insertions of the Edit Sequence, which is
\* the bottom-right cell, is the Levenshtein distance between ref and hyp.
C6_LevenshteinOfTokens ==
    UnitWeightsCase =>
        /\ ErrorCount = IntPart(Cell(rows, Len(ref), Len(hyp)))
        /\ ErrorCount = Levenshtein(ref, hyp)

\* C6 amended: with unit weights and modified weights off, the number of
\* substitutions, deletions and insertions of the Edit Sequence, which is
\* the bottom-right cell, is the Levenshtein distance between the
\* lowercased reference words and the hypothesis words as given.
C6_LevenshteinOfLowercasedRef ==
    UnitWeightsCase =>
        /\ ErrorCount = IntPart(Cell(rows, Len(ref), Len(hyp)))
        /\ Cell(rows, Len(ref), Len(hyp)) = FromInt(ErrorCount)
        /\ ErrorCount = Levenshtein(LowerAll(ref), hyp)

\* a unit-weight alignment of two two-word sentences at distance 1 whose
\* match is on an uppercase reference word
C6_Witness ==
    /\ UnitWeightsCase
    /\ Len(ref) = 2
    /\ Len(hyp) = 2
    /\ IsUpper(ref[1])
    /\ ErrorCount = 1
    /\ TypeCount("match") = 1

FluentCount(sentence) == Len(sentence) - DisfluentCount(sentence)

\* the ten entries of the modified layout
ModifiedLayout ==
    <<RegionCount("match", FALSE), RegionCount("substitution", FALSE),
      RegionCount("deletion", FALSE), RegionCount("insertion", FALSE),
      FluentCount(ref),
      RegionCount("match", TRUE), RegionCount("substitution", TRUE),
      RegionCount("deletion", TRUE), RegionCount("insertion", TRUE),
      DisfluentCount(ref)>>

\* C7 as stated: the Score Tuple is the ten-entry fluent / disfluent layout
\* in modified mode and the five entries [match, sub, del, ins, |ref|]
\* otherwise.
C7_LayoutFiveEntries ==
    Returned =>
        IF modified_weights
        THEN Scores = ModifiedLayout
        ELSE Scores = <<TypeCount("match"), TypeCount("substitution"),
                        TypeCount("deletion"), TypeCount("insertion"), Len(ref)>>

\* C7 amended: the Score Tuple is the ten-entry fluent / disfluent layout
\* in modified mode; otherwise it has six entries, [match, sub, del, ins,
\* |ref|, disfluent_token_count], the count of all-uppercase reference
\* words being appended in that mode too.
C7_LayoutSixEntries ==
    Returned =>
        IF modified_weights
        THEN Scores = ModifiedLayout
        ELSE Scores = <<TypeCount("match"), TypeCount("substitution"),
                        TypeCount("deletion"), TypeCount("insertion"), Len(ref),
                        DisfluentCount(ref)>>

\* an unmodified alignment of a reference with uppercase words has returned
C7_Witness ==
    /\ Returned
    /\ ~modified_weights
    /\ Len(ref) = 3
    /\ DisfluentCount(ref) = 2
    /\ Len(Scores) = 6
    /\ TypeCount("substitution") >= 1
    /\ TypeCount("match") >= 1

\* ins*#I + del*#D + sub*#S of an Edit Sequence
IntCost(eds) ==
    ins_weight * Cardinality({k \in DOMAIN eds : eds[k].type = "insertion"})
    + del_weight * Cardinality({k \in DOMAIN eds : eds[k].type = "deletion"})
    + sub_weight * Cardinality({k \in DOMAIN eds : eds[k].type = "substitution"})

\* the minimum unperturbed weighted edit cost of turning r into h
RECURSIVE MinEditCost(_, _)
MinEditCost(r, h) ==
    IF r = <<>> THEN Len(h) * ins_weight
    ELSE IF h = <<>> THEN Len(r) * del_weight
    ELSE Min3(MinEditCost(Tail(r), h) + del_weight,
              MinEditCost(r, Tail(h)) + ins_weight,
              MinEditCost(Tail(r), Tail(h))
                  + (IF Lower(Head(r)) = Head(h) THEN 0 ELSE sub_weight))

\* the Edit Sequence of the same input with modified weights off
UnmodifiedEdits == backtrace([Self EXCEPT !.modified_weights = FALSE])

EditTypes(eds) == [k \in DOMAIN eds |-> eds[k].type]

\* C8: with the default weights and non-empty ref and hyp, the Edit
\* Sequences produced with modified weights on and off have the same
\* integer-level cost ins*#I + del*#D + sub*#S, and that cost is the
\* minimum unperturbed weighted edit cost.
C8_EpsilonOnlyBreaksTies ==
    (Returned /\ ref # <<>> /\ hyp # <<>> /\ DefaultWeights) =>
        /\ IntCost(edits) = MinEditCost(ref, hyp)
        /\ modified_weights =>
              LET off == UnmodifiedEdits
              IN  /\ off # Diverges
                  /\ IntCost(edits) = IntCost(off)

\* a modified alignment that differs from the unmodified one of the same
\* input and has the same non-zero integer-level cost
C8_Witness ==
    /\ Returned
    /\ modified_weights
    /\ DefaultWeights
    /\ ref # <<>>
    /\ hyp # <<>>
    /\ EditTypes(edits) # EditTypes(UnmodifiedEdits)
    /\ IntCost(edits) = IntCost(UnmodifiedEdits)
    /\ IntCost(edits) > 0

\* an exact cost n + k * 1e-7 as the pair <<n, k>>
ExactAdd(x, y) == <<x[1] + y[1], x[2] + y[2]>>
ExactLess(x, y) == x[1] * 10000000 + x[2] < y[1] * 10000000 + y[2]
ExactMin(x, y) == IF ExactLess(y, x) THEN y ELSE x

\* 1 for a disfluent-tagged reference word in modified mode, else 0
Tagged(w) == IF IsUpper(w) /\ modified_weights THEN 1 ELSE 0

\* the minimum, over the edit scripts aligning the first ii reference words
\* with the first jj hypothesis words, of the sum of the operation weights:
\* match 0, substitution, deletion, insertion, an operation on a tagged
\* reference word costing match+eps, substitution+eps, deletion-eps,
\* insertion+eps
RECURSIVE MinScriptCost(_, _)
MinScriptCost(ii, jj) ==
    IF ii = 0 THEN <<jj * ins_weight, 0>>
    ELSE LET t     == Tagged(ref[ii])
             byDel == ExactAdd(MinScriptCost(ii - 1, jj), <<del_weight, -t>>)
         IN  IF jj = 0 THEN byDel
             ELSE LET byIns == ExactAdd(MinScriptCost(ii, jj - 1), <<ins_weight, t>>)
                      bySub == ExactAdd(MinScriptCost(ii - 1, jj - 1),
                                        <<IF Lower(ref[ii]) = hyp[jj] THEN 0
                                          ELSE sub_weight, t>>)
                  IN  ExactMin(byDel, ExactMin(byIns, bySub))

\* the exact cost <<n, k>> in the unit of the matrix cells, unrounded
ExactCell(x) ==
    IF x[2] >= 0 THEN AddExact(FromInt(x[1]), MulExact(Eps, x[2]))
    ELSE SubExact(FromInt(x[1]), MulExact(Eps, 0 - x[2]))

\* equal up to the rounding of a few float operations (2^-26, far below 1e-7)
Tolerance == <<0, 2^20, 0>>
Near(x, y) ==
    /\ ~FLess(AddExact(x, Tolerance), y)
    /\ ~FLess(AddExact(y, Tolerance), x)

\* C9: every cell matrix[ii][jj] built by cost_matrix, row 0 and column 0
\* included, is the minimum over the edit scripts aligning the first ii
\* reference words with the first jj hypothesis words of the sum of the
\* per-operation weights.
C9_CellsAreMinimumCosts ==
    (rows # <<>>) =>
        \A ii \in 0..Len(ref) : \A jj \in 0..Len(hyp) :
            Near(Cell(rows, ii, jj), ExactCell(MinScriptCost(ii, jj)))

\* the reference word and the hypothesis word of a match or substitution
EditRefWord(e) == RStrip(e.ref)
EditHypWord(e) == RStrip(e.hyp)

\* C10: for any positive integer weights and either mode, every 'match' of
\* the backtrace pairs a reference word and a hypothesis word that are
\* equal once the reference word is lowercased, and every 'substitution'
\* pairs words that differ under that comparison.
C10_MatchIffEqualWords ==
    \A k \in DOMAIN edits :
        /\ edits[k].type = "match" =>
              Lower(EditRefWord(edits[k])) = EditHypWord(edits[k])
        /\ edits[k].type = "substitution" =>
              Lower(EditRefWord(edits[k])) # EditHypWord(edits[k])

\* a returned alignment with unequal weights that matched a disfluent word
\* through the fallback shape (one reference word, two equal hypothesis
\* words) or reported a substitution next to a match
C10_Witness ==
    /\ Returned
    /\ modified_weights
    /\ ins_weight = 1
    /\ sub_weight = 2
    /\ \E k \in DOMAIN edits : edits[k].type = "match" /\ IsUpper(edits[k].ref)
    /\ \E k \in DOMAIN edits : edits[k].type = "substitution"

\* the reference words of the matches, substitutions and deletions of an
\* edit list, padding removed, in list order
RECURSIVE RefSide(_)
RefSide(eds) ==
    IF eds = <<>> THEN <<>>
    ELSE (IF Head(eds).type \in {"match", "substitution", "deletion"}
          THEN <<RStrip(Head(eds).ref)>> ELSE <<>>) \o RefSide(Tail(eds))

\* the hypothesis words of the matches, substitutions and insertions
RECURSIVE HypSide(_)
HypSide(eds) ==
    IF eds = <<>> THEN <<>>
    ELSE (IF Head(eds).type \in {"match", "substitution", "insertion"}
          THEN <<RStrip(Head(eds).hyp)>> ELSE <<>>) \o HypSide(Tail(eds))

\* C11: the Edit Sequence align returns is a complete, order-preserving
\* alignment: the reference words of its matches, substitutions and
\* deletions (padding removed) are ref[0..|ref|-1] in order and the
\* hypothesis words of its matches, substitutions and insertions are
\* hyp[0..|hyp|-1] in order, nothing skipped, repeated or reordered; while
\* the loop runs, the list built so far, read backwards, covers exactly the
\* words after position i of ref and after position j of hyp.
C11_OrderPreservingAlignment ==
    /\ Returned =>
          /\ RefSide(edits) = ref
          /\ HypSide(edits) = hyp
          /\ \A k \in DOMAIN edits :
                edits[k].type \in {"match", "substitution", "deletion", "insertion"}
    /\ pc = "backtrace" =>
          /\ RefSide(Reverse(edits)) = SubSeq(ref, i + 1, Len(ref))
          /\ HypSide(Reverse(edits)) = SubSeq(hyp, j + 1, Len(hyp))

\* a returned alignment of a three-word reference with a match, a deletion
\* and a substitution whose reference word is padded
C11_Witness ==
    /\ Returned
    /\ Len(ref) = 3
    /\ Len(hyp) = 2
    /\ ref[1] # ref[2]
    /\ TypeCount("match") >= 1
    /\ TypeCount("deletion") >= 1
    /\ \E k \in DOMAIN edits :
          edits[k].type = "substitution" /\ edits[k].ref # RStrip(edits[k].ref)

\* the loop is at a cell other than (0, 0)
InLoop == pc = "backtrace" /\ ~(i = 0 /\ j = 0)

\* at every cell the loop reaches, the indices are in range, some rule of
\* the chain applies unless the cell is (0, 0), and the iterations made
\* plus the distance left do not exceed |ref| + |hyp|
C12_LoopState ==
    pc = "backtrace" =>
        /\ i \in 0..Len(ref)
        /\ j \in 0..Len(hyp)
        /\ InLoop => Branch(Self, rows, i, j) \in 1..5
        /\ Len(edits) + i + j <= Len(ref) + Len(hyp)

\* one iteration emits one edit, lowers i + j by 1 or 2 and leaves both
\* indices non-negative
C12_LoopStep ==
    InLoop =>
        /\ pc' = "backtrace"
        /\ Len(edits') = Len(edits) + 1
        /\ (i + j) - (i' + j') \in {1, 2}
        /\ i' \in {i - 1, i}
        /\ j' \in {j - 1, j}
        /\ i' >= 0
        /\ j' >= 0

\* align() run to its end: it has returned, it has raised, or one more step
\* of it can be taken (the three entry tests of align are exhaustive, the
\* loop leaves (0, 0) only by returning, and elsewhere a rule applies)
C12_CanProceed ==
    \/ pc \in {"done", "raised"}
    \/ pc = "constructed"
          /\ (Len(ref) = 0 \/ (Len(ref) # 0 /\ Len(hyp) = 0)
                \/ (Len(ref) # 0 /\ Len(hyp) # 0))
    \/ pc = "backtrace" /\ i = 0 /\ j = 0
    \/ InLoop /\ Branch(Self, rows, i, j) \in 1..5

\* C12: for every non-empty ref and hyp, either mode and all weights in
\* 1..MaxWeight, the backtrace loop terminates at (i, j) = (0, 0): at every
\* cell other than (0, 0) at least one of the five rules applies, each
\* iteration lowers i + j by 1 or 2, i and j never become negative, the
\* loop is left only at (0, 0), and it makes at most |ref| + |hyp|
\* iterations.
C12_BacktraceTerminates ==
    /\ []C12_LoopState
    /\ []C12_CanProceed
    /\ [][C12_LoopStep]_vars
    /\ [][pc = "backtrace" /\ pc' # "backtrace" => i = 0 /\ j = 0 /\ pc' = "done"]_vars
    /\ [](Returned => Len(edits) <= Len(ref) + Len(hyp))

\* a loop over a two-by-two matrix of unequal weights, in modified mode,
\* that has reached (0, 0) in three iterations
C12_Witness ==
    /\ pc = "backtrace"
    /\ i = 0
    /\ j = 0
    /\ Len(ref) = 2
    /\ Len(hyp) = 2
    /\ Len(edits) = 3
    /\ modified_weights
    /\ ins_weight # sub_weight

\* C13: with modified weights on, the per-region counts of the Score Tuple
\* agree with its per-region token counts: fluent match + sub + del is the
\* fluent token count, disfluent match + sub + del is the disfluent token
\* count, the two token counts are the numbers of reference words that are
\* not / are all-uppercase, and they add up to |ref|.
C13_RegionCountsCoverRegions ==
    (Returned /\ modified_weights) =>
        /\ Len(Scores) = 10
        /\ Scores[1] + Scores[2] + Scores[3] = Scores[5]
        /\ Scores[6] + Scores[7] + Scores[8] = Scores[10]
        /\ Scores[5] = FluentCount(ref)
        /\ Scores[10] = DisfluentCount(ref)
        /\ Scores[5] + Scores[10] = Len(ref)

\* a returned modified alignment of a three-word reference with words of
\* both regions, a substitution of a disfluent word by a longer word (its
\* reference side is padded), an insertion and a fluent match or deletion
C13_Witness ==
    /\ Returned
    /\ modified_weights
    /\ Len(ref) = 3
    /\ DisfluentCount(ref) \in {1, 2}
    /\ Scores[7] >= 1
    /\ \E k \in DOMAIN edits :
          edits[k].type = "substitution" /\ edits[k].ref # RStrip(edits[k].ref)
                /\ IsUpper(edits[k].ref)
    /\ Scores[4] >= 1
    /\ Scores[1] + Scores[3] >= 1

\* rules 1 to 4 all fail at the cell the loop is at
OnlyRule5Left ==
    /\ InLoop
    /\ ~Rule1(Self, rows, i, j)
    /\ ~Rule2(Self, rows, i, j)
    /\ ~Rule3(Self, rows, i, j)
    /\ ~Rule4(Self, rows, i, j)

\* C14: rule 5 of the backtrace is not dead code.  Wherever the loop, with
\* the default weights and non-empty ref and hyp, reaches a cell at which
\* rules 1 to 4 all fail, the cell is an interior one whose cost is the
\* diagonal neighbour plus small_value, its two words are equal once the
\* reference word is lowercased, and the diagonal is not the cheapest
\* neighbour, which is why rule 1 misses it; rule 5 applies there (and such
\* cells are reached: see the witness).
C14_Rule5CoversMissedMatches ==
    (OnlyRule5Left /\ DefaultWeights) =>
        /\ i > 0
        /\ j > 0
        /\ Rule5(Self, rows, i, j)
        /\ Branch(Self, rows, i, j) = 5
        /\ Lower(ref[i]) = hyp[j]
        /\ FLess(FMinList(Neighbors(rows, i, j)), Cell(rows, i - 1, j - 1))

\* the loop has just emitted a match through rule 5: at the cell it left,
\* that of a disfluent reference word in modified mode, rules 1 to 4 failed
C14_Witness ==
    /\ pc = "backtrace"
    /\ DefaultWeights
    /\ modified_weights
    /\ Len(edits) >= 1
    /\ edits[Len(edits)].type = "match"
    /\ i < Len(ref)
    /\ j < Len(hyp)
    /\ IsUpper(ref[i + 1])
    /\ Branch(Self, rows, i + 1, j + 1) = 5
    /\ ~Rule1(Self, rows, i + 1, j + 1)
    /\ edits[Len(edits)] = MatchEdit(Self, i, j)

====
